---- MODULE Spec2Model ----
(***************************************************************************)
(* Model of config_decoder (snapshot.go) and of its caller, the main of    *)
(* cmd/decode_config_history: a producer goroutine that scans one JSON     *)
(* document token by token, a pool of writer goroutines fed through an     *)
(* unbuffered item channel, and main, which waits for one message on the   *)
(* error channel and then drains one WorkerStatus per pool member.         *)
(*                                                                         *)
(* The document is a sequence of tokens as encoding/json's Decoder yields  *)
(* them (commas and colons are not tokens).  A token is [k, s]: k is the   *)
(* kind, s the text.                                                       *)
(***************************************************************************)
EXTENDS Integers, Sequences, FiniteSets, Bags, TLC

\* ------------------------------------------------------------------ bounds
\* most top-level fields in front of the items field
MaxFields == 2
\* most elements of the items array
MaxItems == 2
\* largest pool size of the general specification
MaxPool == 2
\* goroutines calling FileWriter.Write on one sink
MaxCallers == 2

\* ------------------------------------------------------------------ tokens
S(x) == [k |-> "str", s |-> x]
N(x) == [k |-> "num", s |-> x]
D(x) == [k |-> "delim", s |-> x]
Null == [k |-> "null", s |-> "null"]
True == [k |-> "bool", s |-> "true"]
\* a number literal outside float64 ("1e999"): well-formed JSON that
\* json.Unmarshal cannot store
BigNum == [k |-> "bignum", s |-> "1e999"]
\* a byte sequence that is not JSON: the scanner reports a syntax error
Bad == [k |-> "bad", s |-> "?"]

IsOpen(t) == t.k = "delim" /\ t.s \in {"{", "["}
IsClose(t) == t.k = "delim" /\ t.s \in {"}", "]"}

\* ------------------------------------------------------------------ values
\* Go values held in a map[string]any.  metadata and the config_snapshot map
\* are Go maps, i.e. references: a Record holds Ref("META") / Ref("SK"), not
\* a copy.  Every value has the same three fields so that any two compare.
Str(x) == [t |-> "str", s |-> x, ts |-> <<>>]
Ref(x) == [t |-> "ref", s |-> x, ts |-> <<>>]
NilVal == [t |-> "nil", s |-> "", ts |-> <<>>]
NumVal(x) == [t |-> "num", s |-> x, ts |-> <<>>]
\* an object or array value inside an element, kept as its tokens
Nested(toks) == [t |-> "json", s |-> "", ts |-> toks]

EmptyMap == [x \in {} |-> NilVal]
\* m[key] = val on a Go map
Put(m, key, val) == [x \in (DOMAIN m) \cup {key} |-> IF x = key THEN val ELSE m[x]]

\* -------------------------------------------------------------- json.Decoder
\* dec.More(): the next byte exists and is neither ']' nor '}'
More(toks, p) == p <= Len(toks) /\ ~IsClose(toks[p])

\* dec.Token() fails at the end of the input, on a syntax error, and on a
\* number it cannot convert (Token decodes a scalar through Decode)
TokenErr(toks, p) == p > Len(toks) \/ toks[p].k \in {"bad", "bignum"}

\* In field-name position of an object the Decoder itself accepts only a
\* string (or the closing brace): anything else is a syntax error of Token()
KeyTokenErr(toks, p) == TokenErr(toks, p) \/ toks[p].k # "str"

\* index of the last token of the value that starts at p; 0 when the input
\* ends inside the value
RECURSIVE MatchFrom(_, _, _)
MatchFrom(toks, p, depth) ==
  IF p > Len(toks) THEN 0
  ELSE LET d == IF IsOpen(toks[p]) THEN depth + 1
                ELSE IF IsClose(toks[p]) THEN depth - 1
                ELSE depth
       IN IF d <= 0 THEN p ELSE MatchFrom(toks, p + 1, d)

ValueEnd(toks, p) == MatchFrom(toks, p, 0)

\* the Go value of the scalar token t
ScalarVal(t) ==
  CASE t.k = "str" -> Str(t.s)
    [] t.k = "num" -> NumVal(t.s)
    [] OTHER -> NilVal

\* map built from the members of the object whose tokens are toks[p..e],
\* p the '{' and e its '}' : q walks the keys
RECURSIVE Members(_, _, _, _)
Members(toks, q, e, m) ==
  IF q >= e THEN m
  ELSE LET ve == ValueEnd(toks, q + 1)
           val == IF ve = q + 1 THEN ScalarVal(toks[q + 1])
                  ELSE Nested(SubSeq(toks, q + 1, ve))
       IN Members(toks, ve + 1, e, Put(m, toks[q].s, val))

\* dec.Decode(&v), v a nil map[string]any, at position p.
\* Result: [v, isNil, err, pos].  A syntax error (or a truncated value) is
\* found by the scan of the whole value, before anything is stored; a value
\* that is not an object is a type error and leaves v nil; null leaves v nil
\* without an error; an unconvertible number inside an object is reported
\* after the map has been built, with the member set to nil.
Decode(toks, p) ==
  LET e == ValueEnd(toks, p)
      rng == IF e = 0 THEN p .. Len(toks) ELSE p .. e
      syntax == e = 0 \/ \E i \in rng : toks[i].k = "bad"
  IN IF syntax THEN [v |-> EmptyMap, isNil |-> TRUE, err |-> "syntax", pos |-> p]
     ELSE IF toks[p] = D("{")
       THEN [v |-> Members(toks, p + 1, e, EmptyMap), isNil |-> FALSE,
             err |-> IF \E i \in rng : toks[i].k = "bignum" THEN "type" ELSE "",
             pos |-> e + 1]
     ELSE IF toks[p].k = "null"
       THEN [v |-> EmptyMap, isNil |-> TRUE, err |-> "", pos |-> e + 1]
     ELSE [v |-> EmptyMap, isNil |-> TRUE, err |-> "type", pos |-> e + 1]

\* (mutant) a skip that does not count nesting: a scalar, or everything up
\* to the first close delimiter
skip_Shallow(toks, p, n) ==
  IF TokenErr(toks, p) THEN [err |-> TRUE, pos |-> p]
  ELSE IF ~IsOpen(toks[p]) THEN [err |-> FALSE, pos |-> p + 1]
  ELSE LET closers == {i \in p .. Len(toks) : IsClose(toks[i])}
       IN IF closers = {} THEN [err |-> TRUE, pos |-> Len(toks) + 1]
          ELSE [err |-> FALSE,
                pos |-> 1 + CHOOSE i \in closers : \A j \in closers : i <= j]

\* skip(d): reads tokens, counting open delimiters up and close delimiters
\* down, until the count is 0.  Result: [err, pos].
RECURSIVE skip(_, _, _)
skip(toks, p, n) ==
  IF TokenErr(toks, p) THEN [err |-> TRUE, pos |-> p]
  ELSE LET n2 == IF IsOpen(toks[p]) THEN n + 1
                 ELSE IF IsClose(toks[p]) THEN n - 1
                 ELSE n
       IN IF n2 = 0 THEN [err |-> FALSE, pos |-> p + 1]
          ELSE skip(toks, p + 1, n2)

\* expect(d, expectedT): reads one token; an error unless it is expectedT
expect(toks, p, expectedT) ==
  IF TokenErr(toks, p) THEN [err |-> TRUE, pos |-> p]
  ELSE [err |-> toks[p] # expectedT, pos |-> p + 1]

\* ------------------------------------------------------------ configuration
\* ItemTransformSpec: Fields maps a source name to a destination name ("" =
\* keep the source name); ItemsField names the array to split
spec ==
  [Fields |-> [x \in {"fileVersion", "configSnapshotId"} |->
                 IF x = "fileVersion" THEN "" ELSE "snapshotId"],
   ItemsField |-> "configurationItems"]

\* capacity of the status channel
StatusCap == 8

snapshotKey == "config_snapshot"

\* ------------------------------------------------------------------ inputs
RECURSIVE Flatten(_)
Flatten(ss) == IF ss = <<>> THEN <<>> ELSE Head(ss) \o Flatten(Tail(ss))

SeqsUpTo(pool, n) == UNION {[1 .. k -> pool] : k \in 0 .. n}

\* top-level fields: name, value
F_ver == <<S("fileVersion"), S("1.0")>>
F_id == <<S("configSnapshotId"), S("abc")>>
F_other == <<S("other"), N("1")>>
F_deep ==
  <<S("deep"), D("{"), S("a"), D("["), D("{"), S("b"), D("["), D("]"), D("}"),
    N("2"), D("]"), D("}")>>
F_idNum == <<S("configSnapshotId"), N("7")>>
F_idNull == <<S("configSnapshotId"), Null>>
F_idBool == <<S("configSnapshotId"), True>>
F_verObj == <<S("fileVersion"), D("{"), D("}")>>
F_verArr == <<S("fileVersion"), D("["), S("1.0"), D("]")>>
F_verBad == <<S("fileVersion"), Bad>>
F_numKey == <<N("5"), S("x")>>
F_nullKey == <<Null, S("x")>>
F_skipBad == <<S("other"), D("["), Bad, D("]")>>

GoodFields == {F_ver, F_id, F_other, F_deep}
\* a captured field whose value is not a string
NonStringFields == {F_idNum, F_idNull, F_idBool, F_verObj, F_verArr}
BadFields == NonStringFields \cup {F_verBad, F_numKey, F_nullKey, F_skipBad}

\* array elements
E_r1 == <<D("{"), S("resourceId"), S("r1"), D("}")>>
\* an element that already has keys the enrichment writes
E_own ==
  <<D("{"), S("resourceId"), S("r2"), S("fileVersion"), S("0.9"),
    S("metadata"), S("own"), S("event_type"), S("mine"), S("tags"), D("{"), D("}"),
    D("}")>>
E_big == <<D("{"), S("resourceId"), S("r3"), S("size"), BigNum, D("}")>>
E_null == <<Null>>
E_num == <<N("5")>>
E_bad == <<D("{"), S("resourceId"), Bad, D("}")>>

ObjectElems == {E_r1, E_own}
AllElems == {E_r1, E_big, E_null, E_num, E_bad}

Items(elems) == <<S(spec.ItemsField), D("[")>> \o Flatten(elems) \o <<D("]")>>
Doc(fields, rest) == <<D("{")>> \o Flatten(fields) \o rest \o <<D("}")>>

\* arrays of up to n objects: plain ones, then ones with keys of their own
ObjectArrays(n) ==
  {[i \in 1 .. k |-> IF i <= j THEN E_r1 ELSE E_own] : k \in 0 .. n, j \in 0 .. n}

\* documents as the external interface describes them: scalar and ignored
\* fields, then the array of objects, then possibly one more field.  Every
\* choice of leading fields comes with a one-element array, every array with
\* both captured fields in front of it, and the arrays of one kind of
\* element with a captured field behind them.
WellFormedDocs ==
  {Doc(fs, Items(<<E_own>>)) : fs \in SeqsUpTo(GoodFields, MaxFields)}
    \cup {Doc(<<F_id, F_ver>>, Items(es)) : es \in ObjectArrays(MaxItems)}
    \cup {Doc(<<F_ver>>, Items(es) \o F_id) : es \in SeqsUpTo({E_r1}, MaxItems)}

\* a bad field, after good ones, in front of a non-empty array
BadFieldDocs ==
  {Doc(fs \o <<b>>, Items(<<E_r1>>)) :
     fs \in SeqsUpTo({F_ver, F_other}, MaxFields - 1), b \in BadFields}

\* arrays with at least one element that is not a plain object
AnyElemDocs ==
  {Doc(<<F_ver>>, Items(es)) :
     es \in SeqsUpTo(AllElems, MaxItems) \ SeqsUpTo({E_r1}, MaxItems)}

\* structural damage: no opening brace, no array, an items field that is no
\* array, a truncated array, an empty input
BrokenDocs ==
  {<<>>, <<D("["), D("]")>>, <<N("1")>>, Doc(<<F_ver>>, <<>>),
   Doc(<<F_ver>>, <<S(spec.ItemsField), S("none")>>),
   Doc(<<F_ver>>, <<S(spec.ItemsField), Null>>),
   Doc(<<F_deep, F_id>>, <<S(spec.ItemsField)>> \o E_r1),
   <<D("{")>> \o F_ver \o <<S(spec.ItemsField), D("[")>> \o E_r1}

Inputs == WellFormedDocs \cup BadFieldDocs \cup AnyElemDocs \cup BrokenDocs

\* ------------------------------------------------------------------- state
VARIABLES
  input,         \* the document read through r
  poolSize,      \* poolSize argument
  pos,           \* the Decoder's read position in input
  metadata,      \* the metadata map (shared by reference with every Record)
  skMap,         \* the map[string]string behind metadata["config_snapshot"]
  prodPc,        \* where the producer goroutine stands
  v,             \* decodeItems' v: [m, isNil, n], n the element's ordinal
  prodErr,       \* the error the producer is sending on cErrors
  panicking,     \* the producer is unwinding a runtime panic
  cItemsClosed,  \* cItems has been closed
  cErrorsClosed, \* cErrors has been closed
  closes,        \* close calls so far: [items, errors]
  errLog,        \* errors main has taken from cErrors, oldest first
  sentLog,       \* Records the workers have taken from cItems, oldest first
  wpc,           \* worker -> "recv" | "write" | "done"
  wItem,         \* worker -> the Record it holds
  wStatus,       \* worker -> its WorkerStatus [ItemCount, ErrorCount]
  chStatus,      \* contents of the buffered status channel
  statusSent,    \* worker -> number of WorkerStatus messages it has sent
  writes,        \* bag of the Write calls made: [rec, meta, sk, n]
  wLog,          \* worker -> its Write calls, oldest first: [n, ok]
  mainPc,        \* "select" | "drain" | "done"
  mainI,         \* main's loop index i
  itemCount,     \* main's itemCount
  cancelled,     \* main left its select through ctx.Done() or the signal
  crashed,       \* the process died of the producer's panic
  fwTerm,        \* FileWriter.termination: <<>> is nil
  fwItem,        \* caller -> the item it passes to FileWriter.Write
  fwPc,          \* caller -> "call" | "sink" | "done"
  fwBuf,         \* caller -> b, the bytes to hand to the sink
  fwRet,         \* caller -> what Write returned: "" (nil), "marshal", "sink"
  sink           \* calls of fw.writer.Write, oldest first: [from, b, ok]

vars ==
  <<input, poolSize, pos, metadata, skMap, prodPc, v, prodErr, panicking,
    cItemsClosed, cErrorsClosed, closes, errLog, sentLog, wpc, wItem, wStatus,
    chStatus, statusSent, writes, wLog, mainPc, mainI, itemCount, cancelled, crashed,
    fwTerm, fwItem, fwPc, fwBuf, fwRet, sink>>

prodVars == <<pos, metadata, skMap, prodPc, v, prodErr, panicking>>
chanVars == <<cItemsClosed, cErrorsClosed, closes>>
workerVars == <<wpc, wItem, wStatus, chStatus, statusSent, writes, wLog>>
mainVars == <<mainPc, mainI, itemCount, cancelled>>
writerVars == <<fwTerm, fwItem, fwPc, fwBuf, fwRet, sink>>
\* what no step of the decoder changes
fixedVars == <<input, poolSize, writerVars>>

Workers == 0 .. poolSize - 1
NoItem == [m |-> EmptyMap, isNil |-> TRUE, n |-> 0]

\* time.Now().UTC().Format(time.RFC3339Nano) at the call
IngestTime == "2022-08-17T04:22:43Z"

\* metadata as DecodeAndSplitItems sets it up before the goroutine starts
InitMetadata ==
  [x \in {"event_type", "event_source", "ingest_time"} |->
     CASE x = "event_type" -> Str("config_snapshot")
       [] x = "event_source" -> Str("something_useful")
       [] OTHER -> Str(IngestTime)]

\* runs: the <<document, pool size>> pairs to start from
InitWith(runs) ==
  /\ \E r \in runs : input = r[1] /\ poolSize = r[2]
  /\ pos = 1
  /\ metadata = InitMetadata
  /\ skMap = EmptyMap
  /\ prodPc = "start"
  /\ v = NoItem
  /\ prodErr = ""
  /\ panicking = FALSE
  /\ cItemsClosed = FALSE
  /\ cErrorsClosed = FALSE
  /\ closes = [items |-> 0, errors |-> 0]
  /\ errLog = <<>>
  /\ sentLog = <<>>
  /\ wpc = [w \in Workers |-> "recv"]
  /\ wItem = [w \in Workers |-> NoItem]
  /\ wStatus = [w \in Workers |-> [ItemCount |-> 0, ErrorCount |-> 0]]
  /\ chStatus = <<>>
  /\ statusSent = [w \in Workers |-> 0]
  /\ writes = EmptyBag
  /\ wLog = [w \in Workers |-> <<>>]
  /\ mainPc = "select"
  /\ mainI = 0
  /\ itemCount = 0
  /\ cancelled = FALSE
  /\ crashed = FALSE

\* no FileWriter.Write is under way
WriterIdle ==
  /\ fwTerm = <<>>
  /\ fwItem = <<>>
  /\ fwPc = <<>>
  /\ fwBuf = <<>>
  /\ fwRet = <<>>
  /\ sink = <<>>

Init == InitWith(Inputs \X (1 .. MaxPool)) /\ WriterIdle

\* the process runs until main returns or a panic kills it
Running == ~crashed /\ mainPc # "done"

\* ---------------------------------------------------------------- producer
\* (mutant) addMetadata without the type assertion: any scalar is stored
addMetadata_AnyScalar(md, sk, key, val) ==
  [md |-> Put(md, snapshotKey, Ref("SK")), sk |-> Put(sk, key, val.s), err |-> FALSE]

\* addMetadata(metadata, key, val): makes the config_snapshot map when it is
\* missing, then stores val under key in it when val is a string and fails
\* otherwise.  Result: the two maps and whether it failed.
addMetadata(md, sk, key, val) ==
  LET exists == snapshotKey \in DOMAIN md
      md2 == IF exists THEN md ELSE Put(md, snapshotKey, Ref("SK"))
      sk2 == IF exists THEN sk ELSE EmptyMap
  IN IF val.k = "str"
       THEN [md |-> md2, sk |-> Put(sk2, key, val.s), err |-> FALSE]
       ELSE [md |-> md2, sk |-> sk2, err |-> TRUE]

\* (mutant) an enrichment that leaves the keys the element already has
Enrich_KeepsOwn(m, md) ==
  LET m1 == Put(m, "metadata", Ref("META"))
  IN [x \in (DOMAIN m1) \cup (DOMAIN md) |-> IF x \in DOMAIN m1 THEN m1[x] ELSE md[x]]

\* the two enrichment statements of decodeItems on a non-nil v:
\* v["metadata"] = metadata, then v[key] = val for every key of metadata
Enrich(m, md) ==
  LET m1 == Put(m, "metadata", Ref("META"))
  IN [x \in (DOMAIN m1) \cup (DOMAIN md) |-> IF x \in DOMAIN md THEN md[x] ELSE m1[x]]

\* the producer leaves through `cErrors <- err; return`
Fatal(e) ==
  /\ prodPc' = "sendFatal"
  /\ prodErr' = e

\* (mutant) the scan starts whatever the first token is
ProdStart_Lenient ==
  /\ Running /\ prodPc = "start"
  /\ prodPc' = "scan"
  /\ pos' = expect(input, pos, D("{")).pos
  /\ UNCHANGED <<metadata, skMap, v, prodErr, panicking>>
  /\ UNCHANGED <<chanVars, workerVars, mainVars, fixedVars, errLog, sentLog, crashed>>

\* expect(dec, '{') at the start of the goroutine
ProdStart ==
  /\ Running /\ prodPc = "start"
  /\ LET r == expect(input, pos, D("{"))
     IN IF r.err
          THEN Fatal("expect") /\ pos' = r.pos
          ELSE prodPc' = "scan" /\ pos' = r.pos /\ prodErr' = prodErr
  /\ UNCHANGED <<metadata, skMap, v, panicking>>
  /\ UNCHANGED <<chanVars, workerVars, mainVars, fixedVars, errLog, sentLog, crashed>>

\* the top-level loop finds dec.More() false: the goroutine returns
ProdScanEnd ==
  /\ Running /\ prodPc = "scan"
  /\ ~More(input, pos)
  /\ prodPc' = "ret"
  /\ UNCHANGED <<pos, metadata, skMap, v, prodErr, panicking>>
  /\ UNCHANGED <<chanVars, workerVars, mainVars, fixedVars, errLog, sentLog, crashed>>

\* (mutant) the branch at snapshot.go:248-250 taken: print, read on
ProdNameErr_Continues ==
  /\ Running /\ prodPc = "scan"
  /\ More(input, pos)
  /\ KeyTokenErr(input, pos)
  /\ pos' = pos + 1
  /\ UNCHANGED <<metadata, skMap, prodPc, v, prodErr, panicking>>
  /\ UNCHANGED <<chanVars, workerVars, mainVars, fixedVars, errLog, sentLog, crashed>>

\* dec.Token() for the field name fails
ProdNameErr ==
  /\ Running /\ prodPc = "scan"
  /\ More(input, pos)
  /\ KeyTokenErr(input, pos)
  /\ Fatal("token")
  /\ UNCHANGED <<pos, metadata, skMap, v, panicking>>
  /\ UNCHANGED <<chanVars, workerVars, mainVars, fixedVars, errLog, sentLog, crashed>>

\* (mutant) decodeItems enters its loop whatever follows the field name
ProdItemsField_Lenient ==
  /\ Running /\ prodPc = "scan"
  /\ More(input, pos) /\ ~KeyTokenErr(input, pos)
  /\ input[pos].s = spec.ItemsField
  /\ prodPc' = "items"
  /\ pos' = expect(input, pos + 1, D("[")).pos
  /\ UNCHANGED <<metadata, skMap, v, prodErr, panicking>>
  /\ UNCHANGED <<chanVars, workerVars, mainVars, fixedVars, errLog, sentLog, crashed>>

\* the field is spec.ItemsField: decodeItems starts with expect(dec, '[')
ProdItemsField ==
  /\ Running /\ prodPc = "scan"
  /\ More(input, pos) /\ ~KeyTokenErr(input, pos)
  /\ input[pos].s = spec.ItemsField
  /\ LET r == expect(input, pos + 1, D("["))
     IN IF r.err
          THEN Fatal("decodeItems") /\ pos' = r.pos
          ELSE prodPc' = "items" /\ pos' = r.pos /\ prodErr' = prodErr
  /\ UNCHANGED <<metadata, skMap, v, panicking>>
  /\ UNCHANGED <<chanVars, workerVars, mainVars, fixedVars, errLog, sentLog, crashed>>

\* the field is a key of spec.Fields: read its value and store it
ProdCapture ==
  /\ Running /\ prodPc = "scan"
  /\ More(input, pos) /\ ~KeyTokenErr(input, pos)
  /\ input[pos].s # spec.ItemsField
  /\ input[pos].s \in DOMAIN spec.Fields
  /\ LET f == input[pos].s
         tfv == IF spec.Fields[f] = "" THEN f ELSE spec.Fields[f]
     IN IF TokenErr(input, pos + 1)
          THEN Fatal("value") /\ pos' = pos + 1 /\ UNCHANGED <<metadata, skMap>>
        ELSE IF input[pos + 1].k = "delim"
          THEN Fatal("delim") /\ pos' = pos + 2 /\ UNCHANGED <<metadata, skMap>>
        ELSE LET r == addMetadata(metadata, skMap, tfv, input[pos + 1])
             IN /\ metadata' = r.md
                /\ skMap' = r.sk
                /\ pos' = pos + 2
                /\ IF r.err THEN Fatal("addMetadata")
                            ELSE UNCHANGED <<prodPc, prodErr>>
  /\ UNCHANGED <<v, panicking>>
  /\ UNCHANGED <<chanVars, workerVars, mainVars, fixedVars, errLog, sentLog, crashed>>

\* any other field: skip its value
ProdSkip ==
  /\ Running /\ prodPc = "scan"
  /\ More(input, pos) /\ ~KeyTokenErr(input, pos)
  /\ input[pos].s # spec.ItemsField
  /\ input[pos].s \notin DOMAIN spec.Fields
  /\ LET r == skip(input, pos + 1, 0)
     IN IF r.err
          THEN Fatal("skip") /\ pos' = r.pos
          ELSE pos' = r.pos /\ UNCHANGED <<prodPc, prodErr>>
  /\ UNCHANGED <<metadata, skMap, v, panicking>>
  /\ UNCHANGED <<chanVars, workerVars, mainVars, fixedVars, errLog, sentLog, crashed>>

\* (mutant) decodeItems closes cItems itself when the array ends
ProdItemsEnd_Closes ==
  /\ Running /\ prodPc = "items"
  /\ ~More(input, pos)
  /\ prodPc' = "scan"
  /\ cItemsClosed' = TRUE
  /\ closes' = [closes EXCEPT !.items = @ + 1]
  /\ UNCHANGED <<pos, metadata, skMap, v, prodErr, panicking, cErrorsClosed>>
  /\ UNCHANGED <<workerVars, mainVars, fixedVars, errLog, sentLog, crashed>>

\* (mutant) decodeItems reads the array's ']' before it returns
ProdItemsEnd_ReadsClose ==
  /\ Running /\ prodPc = "items"
  /\ ~More(input, pos)
  /\ prodPc' = "scan"
  /\ pos' = pos + 1
  /\ UNCHANGED <<metadata, skMap, v, prodErr, panicking>>
  /\ UNCHANGED <<chanVars, workerVars, mainVars, fixedVars, errLog, sentLog, crashed>>

\* decodeItems' loop finds dec.More() false and returns nil: back in the
\* top-level loop, with the array's ']' still unread
ProdItemsEnd ==
  /\ Running /\ prodPc = "items"
  /\ ~More(input, pos)
  /\ prodPc' = "scan"
  /\ UNCHANGED <<pos, metadata, skMap, v, prodErr, panicking>>
  /\ UNCHANGED <<chanVars, workerVars, mainVars, fixedVars, errLog, sentLog, crashed>>

\* dec.Decode(&v) of the next element; an error is sent on cErrors before
\* the enrichment, which follows in either case
ProdDecode ==
  /\ Running /\ prodPc = "items"
  /\ More(input, pos)
  /\ LET r == Decode(input, pos)
     IN /\ v' = [m |-> r.v, isNil |-> r.isNil, n |-> v.n + 1]
        /\ pos' = r.pos
        /\ IF r.err # ""
             THEN prodPc' = "sendElemErr" /\ prodErr' = r.err
             ELSE prodPc' = "enrich" /\ prodErr' = prodErr
  /\ UNCHANGED <<metadata, skMap, panicking>>
  /\ UNCHANGED <<chanVars, workerVars, mainVars, fixedVars, errLog, sentLog, crashed>>

\* (mutant) the enrichment also notes the element in the shared metadata
ProdEnrich_Stamps ==
  /\ Running /\ prodPc = "enrich"
  /\ ~v.isNil
  /\ metadata' = Put(metadata, "last_item", v.m["resourceId"])
  /\ v' = [v EXCEPT !.m = Enrich(v.m, metadata')]
  /\ prodPc' = "sendItem"
  /\ UNCHANGED <<pos, skMap, prodErr, panicking>>
  /\ UNCHANGED <<chanVars, workerVars, mainVars, fixedVars, errLog, sentLog, crashed>>

\* v["metadata"] = metadata; for key, val := range metadata { v[key] = val }
\* An assignment to an entry of a nil map is a runtime panic: the deferred
\* closes run and the process dies.
ProdEnrich ==
  /\ Running /\ prodPc = "enrich"
  /\ IF v.isNil
       THEN /\ panicking' = TRUE
            /\ prodPc' = "ret"
            /\ v' = v
       ELSE /\ v' = [v EXCEPT !.m = Enrich(v.m, metadata)]
            /\ prodPc' = "sendItem"
            /\ panicking' = panicking
  /\ UNCHANGED <<pos, metadata, skMap, prodErr>>
  /\ UNCHANGED <<chanVars, workerVars, mainVars, fixedVars, errLog, sentLog, crashed>>

\* deferred close(cErrors): registered last, so it runs first
ProdCloseErrors ==
  /\ Running /\ prodPc = "ret"
  /\ cErrorsClosed' = TRUE
  /\ closes' = [closes EXCEPT !.errors = @ + 1]
  /\ prodPc' = "ret2"
  /\ UNCHANGED <<pos, metadata, skMap, v, prodErr, panicking, cItemsClosed>>
  /\ UNCHANGED <<workerVars, mainVars, fixedVars, errLog, sentLog, crashed>>

\* deferred close(cItems); after it the goroutine is gone, or, when it is
\* unwinding a panic, the runtime is about to end the process
ProdCloseItems ==
  /\ Running /\ prodPc = "ret2"
  /\ cItemsClosed' = TRUE
  /\ closes' = [closes EXCEPT !.items = @ + 1]
  /\ prodPc' = IF panicking THEN "panicked" ELSE "done"
  /\ UNCHANGED <<pos, metadata, skMap, v, prodErr, panicking, cErrorsClosed>>
  /\ UNCHANGED <<workerVars, mainVars, fixedVars, errLog, sentLog, crashed>>

\* the unrecovered panic ends the process
Crash ==
  /\ Running /\ prodPc = "panicked"
  /\ crashed' = TRUE
  /\ UNCHANGED <<prodVars, chanVars, workerVars, mainVars, fixedVars, errLog, sentLog>>

\* ----------------------------------------------------------------- workers
\* `for i := range wp.chItem` takes a Record: the unbuffered send of the
\* producer and the receive of worker w happen together; status.ItemCount++
WorkerRecv(w) ==
  /\ Running /\ wpc[w] = "recv"
  /\ prodPc = "sendItem"
  /\ wItem' = [wItem EXCEPT ![w] = v]
  /\ wStatus' = [wStatus EXCEPT ![w].ItemCount = @ + 1]
  /\ wpc' = [wpc EXCEPT ![w] = "write"]
  /\ sentLog' = Append(sentLog, v)
  /\ prodPc' = "items"
  /\ UNCHANGED <<pos, metadata, skMap, v, prodErr, panicking>>
  /\ UNCHANGED <<chanVars, chStatus, statusSent, writes, wLog, mainVars, fixedVars, errLog,
                 crashed>>

\* (mutant) a worker that also sends its status after every Write
WorkerWrite_Reports(w) ==
  /\ Running /\ wpc[w] = "write"
  /\ Len(chStatus) < StatusCap
  /\ \E ok \in BOOLEAN :
       /\ wStatus' = [wStatus EXCEPT ![w].ErrorCount = IF ok THEN @ ELSE @ + 1]
       /\ wLog' = [wLog EXCEPT ![w] = Append(@, [n |-> wItem[w].n, ok |-> ok])]
  /\ chStatus' = Append(chStatus, wStatus'[w])
  /\ writes' = writes (+) SetToBag({[rec |-> wItem[w].m, meta |-> metadata,
                                     sk |-> skMap, n |-> wItem[w].n]})
  /\ wpc' = [wpc EXCEPT ![w] = "recv"]
  /\ wItem' = [wItem EXCEPT ![w] = NoItem]
  /\ UNCHANGED <<prodVars, chanVars, statusSent, mainVars, fixedVars, errLog,
                 sentLog, crashed>>

\* (mutant) a worker that returns at its first failed Write
WorkerWrite_StopsOnError(w) ==
  /\ Running /\ wpc[w] = "write"
  /\ \E ok \in BOOLEAN :
       /\ wStatus' = [wStatus EXCEPT ![w].ErrorCount = IF ok THEN @ ELSE @ + 1]
       /\ wLog' = [wLog EXCEPT ![w] = Append(@, [n |-> wItem[w].n, ok |-> ok])]
       /\ wpc' = [wpc EXCEPT ![w] = IF ok THEN "recv" ELSE "done"]
  /\ writes' = writes (+) SetToBag({[rec |-> wItem[w].m, meta |-> metadata,
                                     sk |-> skMap, n |-> wItem[w].n]})
  /\ wItem' = [wItem EXCEPT ![w] = NoItem]
  /\ UNCHANGED <<prodVars, chanVars, chStatus, statusSent, mainVars, fixedVars, errLog,
                 sentLog, crashed>>

\* w.Write(i): the Writer sees the Record and, through its references, the
\* maps as they are now.  The Writer is the caller's: NullWriter always
\* returns nil, another Writer may fail; a failed Write only counts.
WorkerWrite(w) ==
  /\ Running /\ wpc[w] = "write"
  /\ \E ok \in BOOLEAN :
       /\ wStatus' = [wStatus EXCEPT ![w].ErrorCount = IF ok THEN @ ELSE @ + 1]
       /\ wLog' = [wLog EXCEPT ![w] = Append(@, [n |-> wItem[w].n, ok |-> ok])]
  /\ writes' = writes (+) SetToBag({[rec |-> wItem[w].m, meta |-> metadata,
                                     sk |-> skMap, n |-> wItem[w].n]})
  /\ wpc' = [wpc EXCEPT ![w] = "recv"]
  /\ wItem' = [wItem EXCEPT ![w] = NoItem]
  /\ UNCHANGED <<prodVars, chanVars, chStatus, statusSent, mainVars, fixedVars, errLog,
                 sentLog, crashed>>

\* (mutant) a worker that sees the closed channel drops the Record in hand
WorkerEnd_DropsItem(w) ==
  /\ Running /\ wpc[w] \in {"recv", "write"}
  /\ cItemsClosed
  /\ Len(chStatus) < StatusCap
  /\ chStatus' = Append(chStatus, wStatus[w])
  /\ statusSent' = [statusSent EXCEPT ![w] = @ + 1]
  /\ wpc' = [wpc EXCEPT ![w] = "done"]
  /\ UNCHANGED <<prodVars, chanVars, wItem, wStatus, writes, wLog, mainVars, fixedVars,
                 errLog, sentLog, crashed>>

\* (mutant) a worker that sends its status without waiting for the close
WorkerEnd_BeforeClose(w) ==
  /\ Running /\ wpc[w] = "recv"
  /\ Len(chStatus) < StatusCap
  /\ chStatus' = Append(chStatus, wStatus[w])
  /\ statusSent' = [statusSent EXCEPT ![w] = @ + 1]
  /\ wpc' = [wpc EXCEPT ![w] = "done"]
  /\ UNCHANGED <<prodVars, chanVars, wItem, wStatus, writes, wLog, mainVars, fixedVars,
                 errLog, sentLog, crashed>>

\* the range loop ends, cItems being closed (and, unbuffered, empty), and the
\* worker sends its status: wp.chStatus <- status blocks while the buffer is
\* full.  Leaving the loop touches nothing shared, so it is one step with
\* the send.
WorkerEnd(w) ==
  /\ Running /\ wpc[w] = "recv"
  /\ cItemsClosed
  /\ Len(chStatus) < StatusCap
  /\ chStatus' = Append(chStatus, wStatus[w])
  /\ statusSent' = [statusSent EXCEPT ![w] = @ + 1]
  /\ wpc' = [wpc EXCEPT ![w] = "done"]
  /\ UNCHANGED <<prodVars, chanVars, wItem, wStatus, writes, wLog, mainVars, fixedVars,
                 errLog, sentLog, crashed>>

\* -------------------------------------------------------------------- main
\* case err := <-chErrors, an error arriving: the producer's unbuffered send
\* completes and the producer goes on
MainRecvErr ==
  /\ Running /\ mainPc = "select"
  /\ prodPc \in {"sendFatal", "sendElemErr"}
  /\ errLog' = Append(errLog, prodErr)
  /\ prodPc' = IF prodPc = "sendFatal" THEN "ret" ELSE "enrich"
  /\ mainPc' = "drain"
  /\ UNCHANGED <<pos, metadata, skMap, v, prodErr, panicking>>
  /\ UNCHANGED <<chanVars, workerVars, mainI, itemCount, cancelled, fixedVars, sentLog,
                 crashed>>

\* case err := <-chErrors on the closed channel: err is nil
MainRecvClosed ==
  /\ Running /\ mainPc = "select"
  /\ cErrorsClosed
  /\ mainPc' = "drain"
  /\ UNCHANGED <<prodVars, chanVars, workerVars, mainI, itemCount, cancelled, fixedVars,
                 errLog, sentLog, crashed>>

\* case <-ctx.Done() or case <-chSignalHandler: the timeout or a signal
MainCancel ==
  /\ Running /\ mainPc = "select"
  /\ mainPc' = "drain"
  /\ cancelled' = TRUE
  /\ UNCHANGED <<prodVars, chanVars, workerVars, mainI, itemCount, fixedVars,
                 errLog, sentLog, crashed>>

\* (mutant) main keeps the last ItemCount instead of the sum
MainRecvStatus_Overwrites ==
  /\ Running /\ mainPc = "drain"
  /\ chStatus # <<>>
  /\ itemCount' = Head(chStatus).ItemCount
  /\ chStatus' = Tail(chStatus)
  /\ mainI' = mainI + 1
  /\ mainPc' = IF mainI + 1 < poolSize THEN "drain" ELSE "done"
  /\ UNCHANGED <<prodVars, chanVars, wpc, wItem, wStatus, statusSent, writes, wLog,
                 cancelled, fixedVars, errLog, sentLog, crashed>>

\* (mutant) main's second loop counts to the capacity of chStatus
MainRecvStatus_UpToCap ==
  /\ Running /\ mainPc = "drain"
  /\ chStatus # <<>>
  /\ itemCount' = itemCount + Head(chStatus).ItemCount
  /\ chStatus' = Tail(chStatus)
  /\ mainI' = mainI + 1
  /\ mainPc' = IF mainI + 1 < poolSize /\ mainI + 1 < StatusCap THEN "drain" ELSE "done"
  /\ UNCHANGED <<prodVars, chanVars, wpc, wItem, wStatus, statusSent, writes, wLog,
                 cancelled, fixedVars, errLog, sentLog, crashed>>

\* s := <-chStatus in the loop `for i := 0; i < poolSize; i++`
MainRecvStatus ==
  /\ Running /\ mainPc = "drain"
  /\ chStatus # <<>>
  /\ itemCount' = itemCount + Head(chStatus).ItemCount
  /\ chStatus' = Tail(chStatus)
  /\ mainI' = mainI + 1
  /\ mainPc' = IF mainI + 1 < poolSize THEN "drain" ELSE "done"
  /\ UNCHANGED <<prodVars, chanVars, wpc, wItem, wStatus, statusSent, writes, wLog,
                 cancelled, fixedVars, errLog, sentLog, crashed>>

\* ------------------------------------------------------------ specification
Producer ==
  \/ ProdStart \/ ProdScanEnd \/ ProdNameErr \/ ProdItemsField \/ ProdCapture
  \/ ProdSkip \/ ProdItemsEnd \/ ProdDecode \/ ProdEnrich \/ ProdCloseErrors
  \/ ProdCloseItems \/ Crash

Worker(w) ==
  WorkerRecv(w) \/ WorkerWrite(w) \/ WorkerEnd(w)

\* every step the program itself takes
Program ==
  \/ Producer
  \/ \E w \in Workers : Worker(w)
  \/ MainRecvErr \/ MainRecvClosed \/ MainRecvStatus

Next == Program \/ MainCancel

Spec == Init /\ [][Next]_vars

\* the Go scheduler runs a goroutine that can run; the timeout and the
\* signal are the environment's and need not happen
FairSpec == Spec /\ WF_vars(Program)

\* -------------------------------------------------------------- FileWriter
\* FileWriter.Write called by several goroutines, each on a FileWriter made
\* by one FileWriterFactory(w, termination): they share the sink w.

\* a float64 NaN: a value json.Marshal refuses (UnsupportedValueError)
NaNVal == [t |-> "nan", s |-> "NaN", ts |-> <<>>]

\* the line terminator main configures, []byte{'\n'}
LF == [k |-> "raw", s |-> "\n"]

\* the keys of the items below, in the byte order json.Marshal emits them
KeyOrder == <<"resourceId", "size", "tags">>

\* the encoding of one value
ValueToks(val) ==
  CASE val.t = "str" -> <<S(val.s)>>
    [] val.t = "num" -> <<N(val.s)>>
    [] val.t = "json" -> val.ts
    [] OTHER -> <<Null>>

\* the members of item m from the i-th key of KeyOrder on, encoded
RECURSIVE MemberToks(_, _)
MemberToks(m, i) ==
  IF i > Len(KeyOrder) THEN <<>>
  ELSE IF KeyOrder[i] \in DOMAIN m
    THEN <<S(KeyOrder[i])>> \o ValueToks(m[KeyOrder[i]]) \o MemberToks(m, i + 1)
    ELSE MemberToks(m, i + 1)

\* json.Marshal(item): [b, err]; an unsupported value anywhere is an error
\* and no bytes
Marshal(m) ==
  IF \E key \in DOMAIN m : m[key].t = "nan"
    THEN [b |-> <<>>, err |-> TRUE]
    ELSE [b |-> <<D("{")>> \o MemberToks(m, 1) \o <<D("}")>>, err |-> FALSE]

\* items passed to Write
I_r1 == Put(EmptyMap, "resourceId", Str("r1"))
I_tags ==
  Put(Put(EmptyMap, "tags", Nested(<<D("["), S("x"), D("]")>>)), "resourceId", Str("r2"))
I_nan == Put(Put(EmptyMap, "size", NaNVal), "resourceId", Str("r3"))
FwItems == {I_r1, I_tags, I_nan}

Callers == DOMAIN fwPc

\* what no step of FileWriter.Write changes
decoderVars ==
  <<input, poolSize, prodVars, chanVars, workerVars, mainVars, errLog, sentLog, crashed>>

\* the decoder has not started; MaxCallers goroutines are about to call
\* Write, each with an item of its own
InitWriter ==
  /\ InitWith({<<<<>>, 1>>})
  /\ fwTerm \in {<<>>, <<LF>>}
  /\ fwItem \in [1 .. MaxCallers -> FwItems]
  /\ fwPc = [c \in 1 .. MaxCallers |-> "call"]
  /\ fwBuf = [c \in 1 .. MaxCallers |-> <<>>]
  /\ fwRet = [c \in 1 .. MaxCallers |-> ""]
  /\ sink = <<>>

\* b, err := json.Marshal(item); on an error Write returns it; else
\* b = append(b, fw.termination...) when a termination is set
FwMarshal(c) ==
  /\ fwPc[c] = "call"
  /\ LET r == Marshal(fwItem[c])
     IN IF r.err
          THEN /\ fwRet' = [fwRet EXCEPT ![c] = "marshal"]
               /\ fwPc' = [fwPc EXCEPT ![c] = "done"]
               /\ fwBuf' = fwBuf
          ELSE /\ fwBuf' = [fwBuf EXCEPT ![c] = r.b \o fwTerm]
               /\ fwPc' = [fwPc EXCEPT ![c] = "sink"]
               /\ fwRet' = fwRet
  /\ UNCHANGED <<fwTerm, fwItem, sink, decoderVars>>

\* (mutant) the record and the terminator go to the sink in two calls
FwSinkWrite_TwoCalls(c) ==
  /\ fwPc[c] = "sink"
  /\ \E ok \in BOOLEAN :
       /\ sink' = sink \o <<[from |-> c, b |-> fwBuf[c] \o <<>>, ok |-> ok],
                            [from |-> c, b |-> fwTerm, ok |-> ok]>>
       /\ fwRet' = [fwRet EXCEPT ![c] = IF ok THEN "" ELSE "sink"]
  /\ fwPc' = [fwPc EXCEPT ![c] = "done"]
  /\ UNCHANGED <<fwTerm, fwItem, fwBuf, decoderVars>>

\* _, err = fw.writer.Write(b): one call on the shared sink, which may
\* fail; Write returns the sink's error
FwSinkWrite(c) ==
  /\ fwPc[c] = "sink"
  /\ \E ok \in BOOLEAN :
       /\ sink' = Append(sink, [from |-> c, b |-> fwBuf[c], ok |-> ok])
       /\ fwRet' = [fwRet EXCEPT ![c] = IF ok THEN "" ELSE "sink"]
  /\ fwPc' = [fwPc EXCEPT ![c] = "done"]
  /\ UNCHANGED <<fwTerm, fwItem, fwBuf, decoderVars>>

NextWriter == \E c \in Callers : FwMarshal(c) \/ FwSinkWrite(c)

SpecWriter == InitWriter /\ [][NextWriter]_vars

\* ------------------------------------------------- the document, read whole
\* What the document says, independently of how the producer walks it.

\* position of the name of the first top-level field called name, from the
\* name at q on; 0 when there is none
RECURSIVE FieldPos(_, _, _)
FieldPos(toks, q, name) ==
  IF q >= Len(toks) \/ toks[q].k # "str" THEN 0
  ELSE IF toks[q].s = name THEN q
  ELSE LET e == ValueEnd(toks, q + 1)
       IN IF e = 0 THEN 0 ELSE FieldPos(toks, e + 1, name)

\* first positions of the values of the array that opens before p
RECURSIVE ElemStarts(_, _)
ElemStarts(toks, p) ==
  IF ~More(toks, p) THEN <<>>
  ELSE LET e == ValueEnd(toks, p)
       IN IF e = 0 THEN <<p>> ELSE <<p>> \o ElemStarts(toks, e + 1)

\* the elements of the target array, as first positions
ItemsOf(toks) ==
  IF toks = <<>> \/ toks[1] # D("{") THEN <<>>
  ELSE LET q == FieldPos(toks, 2, spec.ItemsField)
       IN IF q = 0 \/ toks[q + 1] # D("[") THEN <<>> ELSE ElemStarts(toks, q + 2)

\* M, the length of the target array
M == Len(ItemsOf(input))

\* the n-th element as the object it denotes
ElemMap(toks, n) ==
  LET p == ItemsOf(toks)[n] IN Members(toks, p + 1, ValueEnd(toks, p), EmptyMap)

\* destination name -> value of the captured string fields among the
\* top-level fields from the name at q up to the array field
RECURSIVE Captured(_, _, _)
Captured(toks, q, acc) ==
  IF q >= Len(toks) \/ toks[q].k # "str" \/ toks[q].s = spec.ItemsField THEN acc
  ELSE LET e == ValueEnd(toks, q + 1)
           f == toks[q].s
           dest == IF spec.Fields[f] = "" THEN f ELSE spec.Fields[f]
       IN IF e = 0 THEN acc
          ELSE IF f \in DOMAIN spec.Fields /\ toks[q + 1].k = "str"
            THEN Captured(toks, e + 1, Put(acc, dest, toks[q + 1].s))
            ELSE Captured(toks, e + 1, acc)

CapturedOf(toks) == Captured(toks, 2, EmptyMap)

WellFormed == input \in WellFormedDocs

\* the value toks[a..e] holds no token the Decoder rejects
Clean(toks, a, e) == e # 0 /\ \A i \in a .. e : toks[i].k \notin {"bad", "bignum"}

\* walking the top-level fields from the name at q: the first field that is
\* not in order is a captured one whose value is a delimiter, a number, a
\* boolean or null, and it stands before the array field
RECURSIVE NonStringCaptured(_, _)
NonStringCaptured(toks, q) ==
  IF q >= Len(toks) \/ toks[q].k # "str" \/ toks[q].s = spec.ItemsField THEN FALSE
  ELSE IF toks[q].s \in DOMAIN spec.Fields
    THEN IF toks[q + 1].k \in {"delim", "num", "bool", "null"} THEN TRUE
         ELSE IF toks[q + 1].k = "str" THEN NonStringCaptured(toks, q + 2)
         ELSE FALSE
  ELSE LET e == ValueEnd(toks, q + 1)
       IN IF Clean(toks, q + 1, e) THEN NonStringCaptured(toks, e + 1) ELSE FALSE

\* walking the top-level fields from the name at q: the position of the
\* first token in field-name position that is a value other than a string,
\* every field before it being in order; 0 when there is none
RECURSIVE NonStringName(_, _)
NonStringName(toks, q) ==
  IF ~More(toks, q) THEN 0
  ELSE IF toks[q].k \in {"num", "bool", "null", "delim"} THEN q
  ELSE IF toks[q].k # "str" \/ toks[q].s = spec.ItemsField THEN 0
  ELSE IF toks[q].s \in DOMAIN spec.Fields
    THEN IF q < Len(toks) /\ toks[q + 1].k = "str" THEN NonStringName(toks, q + 2) ELSE 0
  ELSE LET e == ValueEnd(toks, q + 1)
       IN IF Clean(toks, q + 1, e) THEN NonStringName(toks, e + 1) ELSE 0

\* walking the top-level fields from the name at q: the position of the name
\* of the array field, every field before it being in order; 0 when the
\* walk does not get there
RECURSIVE ItemsNameFrom(_, _)
ItemsNameFrom(toks, q) ==
  IF ~More(toks, q) \/ toks[q].k # "str" THEN 0
  ELSE IF toks[q].s = spec.ItemsField THEN q
  ELSE IF toks[q].s \in DOMAIN spec.Fields
    THEN IF q < Len(toks) /\ toks[q + 1].k = "str" THEN ItemsNameFrom(toks, q + 2) ELSE 0
  ELSE LET e == ValueEnd(toks, q + 1)
       IN IF Clean(toks, q + 1, e) THEN ItemsNameFrom(toks, e + 1) ELSE 0

ItemsName ==
  IF input = <<>> \/ input[1] # D("{") THEN 0 ELSE ItemsNameFrom(input, 2)

\* the array field is reached and a token other than '[' follows its name
ItemsNotArray ==
  /\ ItemsName # 0
  /\ ~TokenErr(input, ItemsName + 1)
  /\ input[ItemsName + 1] # D("[")

\* open delimiters less close delimiters among toks[a..b]
Balance(toks, a, b) ==
  Cardinality({i \in a .. b : IsOpen(toks[i])})
    - Cardinality({i \in a .. b : IsClose(toks[i])})

\* the last token of the value that starts at p, said without walking: the
\* token itself when it is a scalar, else the first later token at which
\* the delimiters balance (the matching close delimiter); 0 when none
ValueLast(toks, p) ==
  IF p > Len(toks) \/ IsClose(toks[p]) THEN 0
  ELSE IF ~IsOpen(toks[p]) THEN p
  ELSE LET ends == {e \in p .. Len(toks) : IsClose(toks[e]) /\ Balance(toks, p, e) = 0}
       IN IF ends = {} THEN 0 ELSE CHOOSE e \in ends : \A e2 \in ends : e <= e2

\* a top-level field name that is neither captured nor the array field
IsIgnoredName(t) ==
  t.k = "str" /\ t.s \notin (DOMAIN spec.Fields) \cup {spec.ItemsField}

\* the document without the ignored top-level fields in front of its array
\* field, from the name at q on
RECURSIVE StripFrom(_, _)
StripFrom(toks, q) ==
  IF q > Len(toks) THEN <<>>
  ELSE IF toks[q].k # "str" \/ q = Len(toks) \/ toks[q].s = spec.ItemsField
    THEN SubSeq(toks, q, Len(toks))
  ELSE LET e == ValueLast(toks, q + 1)
       IN IF e = 0 THEN SubSeq(toks, q, Len(toks))
          ELSE IF IsIgnoredName(toks[q]) THEN StripFrom(toks, e + 1)
          ELSE SubSeq(toks, q, e) \o StripFrom(toks, e + 1)

Strip(toks) == IF toks = <<>> THEN <<>> ELSE <<toks[1]>> \o StripFrom(toks, 2)

\* the document has an ignored top-level field in front of the array
HasIgnored ==
  \E q \in 2 .. ItemsName - 1 :
    IsIgnoredName(input[q]) /\ Balance(input, 2, q - 1) = 0

\* the array field is reached and its value opens with '['
ItemsIsArray ==
  LET q == ItemsName IN q # 0 /\ q < Len(input) /\ input[q + 1] = D("[")

\* position of the ']' of the target array; past the input when it is cut
ItemsClose ==
  LET e == ValueEnd(input, ItemsName + 1) IN IF e = 0 THEN Len(input) + 1 ELSE e

NameFault ==
  IF input = <<>> \/ input[1] # D("{") THEN 0 ELSE NonStringName(input, 2)

HasNonStringCaptured ==
  input # <<>> /\ input[1] = D("{") /\ NonStringCaptured(input, 2)

\* the elements of the target array whose Decode reports an error
FailedElems == {n \in 1 .. M : Decode(input, ItemsOf(input)[n]).err # ""}

\* the Records given to the item channel: those taken, and the one offered
Offered == IF prodPc = "sendItem" THEN <<v>> ELSE <<>>
SentRecords == sentLog \o Offered

AllWorkersDone == \A w \in Workers : wpc[w] = "done"

\* how often element n has been handed to Write
WriteCount(n) == BagCardinality([x \in {y \in BagToSet(writes) : y.n = n} |-> writes[x]])

\* the Write call a run owes element n: the element's own members under
\* the enrichment, and the maps the Record refers to
MetaFor(captured) ==
  IF DOMAIN captured = {} THEN InitMetadata
  ELSE Put(InitMetadata, snapshotKey, Ref("SK"))

MetaOf(toks) == MetaFor(CapturedOf(toks))

ElemAt(toks, p) == Members(toks, p + 1, ValueEnd(toks, p), EmptyMap)

ExpectedOf(items, meta, sk, n) ==
  [rec |-> Enrich(ElemAt(input, items[n]), meta), meta |-> meta, sk |-> sk, n |-> n]

ExpectedWrite(n) == ExpectedOf(ItemsOf(input), MetaOf(input), CapturedOf(input), n)

RECURSIVE Sum(_, _)
Sum(f, dom) ==
  IF dom = {} THEN 0
  ELSE LET x == CHOOSE y \in dom : TRUE IN f[x] + Sum(f, dom \ {x})

\* WorkerStatus messages sent so far
StatusTotal == Sum(statusSent, Workers)

\* the process is alive and no goroutine can take a step
AtRest == ~crashed /\ ~ENABLED Next

\* pool sizes of the status-sum property, on a few documents that take the
\* program through every step; the larger the pool, the shorter the array
PoolSizes == {1, 2, 4, 8}

PoolDocs ==
  {Doc(<<F_id, F_ver>>, Items(es)) : es \in SeqsUpTo({E_r1}, MaxItems)}
    \cup {Doc(<<F_deep>>, Items(<<E_own>>)),
          Doc(<<F_numKey>>, Items(<<E_r1>>)), Doc(<<>>, Items(<<E_null>>))}

PoolRuns ==
  {r \in PoolDocs \X PoolSizes : r[2] * Len(ItemsOf(r[1])) <= 8}

InitPools == InitWith(PoolRuns) /\ WriterIdle

SpecPools == InitPools /\ [][Next]_vars

\* one worker more than chStatus holds
BigPool == StatusCap + 1

\* error-free documents with no element and with one, and one document for
\* each way the producer ends early
BigPoolDocs ==
  {Doc(<<F_id, F_ver>>, Items(<<>>)), Doc(<<F_deep>>, Items(<<E_own>>)),
   Doc(<<F_numKey>>, Items(<<E_r1>>)), Doc(<<>>, Items(<<E_null>>))}

BigPoolRuns == BigPoolDocs \X {BigPool}

InitBigPool == InitWith(BigPoolRuns) /\ WriterIdle

SpecBigPool == InitBigPool /\ [][Next]_vars /\ WF_vars(Program)

\* ------------------------------------------------------------------ claims

\* C1: on a well-formed input with M object elements, for every pool size,
\* every element is handed to Write at most once, always as the Record the
\* document determines, and when all workers have ended Write has been called
\* exactly once per element: the bag of Write calls is ExpectedWrite(1..M),
\* whatever the pool size and the interleaving.
C1_OneWritePerElement ==
  WellFormed =>
    LET items == ItemsOf(input)
        meta == MetaOf(input)
        sk == CapturedOf(input)
    IN /\ \A x \in BagToSet(writes) :
            /\ x.n \in 1 .. Len(items) /\ writes[x] = 1
            /\ x = ExpectedOf(items, meta, sk, x.n)
       /\ \A x, y \in BagToSet(writes) : x.n = y.n => x = y
       /\ AllWorkersDone =>
            writes = SetToBag({ExpectedOf(items, meta, sk, n) : n \in 1 .. Len(items)})

C1_Witness ==
  /\ WellFormed /\ M = 2 /\ poolSize = 2 /\ AllWorkersDone
  /\ wStatus[0].ItemCount = 1 /\ wStatus[1].ItemCount = 1
  /\ BagCardinality(writes) = 2

\* C2: once main has received poolSize statuses for a run over an array of M
\* objects, its sum of their ItemCount fields is M, for the pool sizes 1, 2,
\* 4 and 8 (whether or not a Write failed).
C2_StatusSum ==
  (mainPc = "done" /\ WellFormed) => (mainI = poolSize /\ itemCount = M)

C2_Witness ==
  /\ mainPc = "done" /\ WellFormed /\ poolSize = 4 /\ M = 2
  /\ \A w \in Workers : wStatus[w].ErrorCount = 0
  /\ wStatus[1].ItemCount = 1 /\ wStatus[3].ItemCount = 1

C4_MainNeverBlocks ==
  (AtRest /\ ~cancelled) => mainPc = "done"

\* C5: each channel is closed at most once, and only by the producer as it
\* ends: while the producer stands at a send on cErrors or on cItems that
\* channel is open, and once cItems is closed the producer sends nothing
\* more.
C5_NoSendOnClosed ==
  /\ closes.items <= 1 /\ closes.errors <= 1
  /\ cItemsClosed <=> closes.items = 1
  /\ cErrorsClosed <=> closes.errors = 1
  /\ prodPc \in {"sendFatal", "sendElemErr"} => ~cErrorsClosed
  /\ prodPc = "sendItem" => ~cItemsClosed
  /\ cErrorsClosed => prodPc \in {"ret2", "done", "panicked"}
  /\ cItemsClosed => prodPc \in {"done", "panicked"}

C5_Witness ==
  /\ cItemsClosed /\ cErrorsClosed /\ prodPc = "done"
  /\ Len(sentLog) >= 1 /\ Len(errLog) = 1

\* C6: every Record handed to a Writer has each captured field as a
\* top-level key, under its destination name, with the string read from the
\* document.
C6_CapturedAtTopLevel ==
  \A x \in BagToSet(writes) :
    \A d \in DOMAIN CapturedOf(input) :
      d \in DOMAIN x.rec /\ x.rec[d] = Str(CapturedOf(input)[d])

\* C7: in every written Record the keys of the metadata value are exactly the
\* destination names of the captured fields and event_type, event_source,
\* ingest_time, each captured key with the document's value.
C7_MetadataKeys ==
  \A x \in BagToSet(writes) :
    /\ DOMAIN x.meta =
         (DOMAIN CapturedOf(input)) \cup {"event_type", "event_source", "ingest_time"}
    /\ \A d \in DOMAIN CapturedOf(input) : x.meta[d] = Str(CapturedOf(input)[d])

\* C8: every Record given to the item channel has Record[k] = metadata[k]
\* for every key k of the metadata map, has the metadata map itself under
\* "metadata", and has every other key of the element with the element's
\* decoded value.
C8_EnrichedRecord ==
  LET items == ItemsOf(input)
      sent == SentRecords
  IN \A i \in 1 .. Len(sent) :
       LET r == sent[i].m
           orig == ElemAt(input, items[sent[i].n])
           own == (DOMAIN orig) \ ({"metadata"} \cup DOMAIN metadata)
       IN /\ \A k \in DOMAIN metadata : k \in DOMAIN r /\ r[k] = metadata[k]
          /\ "metadata" \in DOMAIN r /\ r["metadata"] = Ref("META")
          /\ \A k \in own : k \in DOMAIN r /\ r[k] = orig[k]

C8_Witness ==
  /\ snapshotKey \in DOMAIN metadata
  /\ \E i \in 1 .. Len(sentLog) :
       /\ {"metadata", "event_type", "resourceId"} \subseteq DOMAIN ElemMap(input, sentLog[i].n)
       /\ sentLog[i].m["event_type"] = Str("config_snapshot")
       /\ sentLog[i].m["resourceId"] = Str("r2")

\* C9: when a captured field in front of the array has a value that is not
\* a string, no Record is ever given to the item channel and no element is
\* decoded; the producer reports that one error and nothing else, and stops
\* scanning: after the report it only returns, closing both channels.
C9_NonStringFieldIsFatal ==
  HasNonStringCaptured =>
    /\ SentRecords = <<>> /\ writes = EmptyBag
    /\ prodPc \in {"start", "scan", "sendFatal", "ret", "ret2", "done"}
    /\ ~panicking
    /\ prodErr \in {"", "delim", "addMetadata"}
    /\ prodErr # "" => prodPc \in {"sendFatal", "ret", "ret2", "done"}
    /\ prodPc \in {"ret", "ret2", "done"} => errLog = <<prodErr>> /\ prodErr # ""
    /\ prodPc = "sendFatal" => errLog = <<>>
    /\ prodPc = "done" => cItemsClosed /\ cErrorsClosed
    /\ (AtRest /\ errLog # <<>>) => prodPc = "done"

C9_Witness ==
  /\ HasNonStringCaptured /\ prodPc = "done" /\ errLog = <<"addMetadata">>
  /\ cItemsClosed /\ cErrorsClosed /\ mainPc = "done"

\* C10: when exactly one element of the array fails to decode, one error is
\* reported for it, the producer keeps running, and when the producer has
\* ended every other element has been given to the item channel.
C10_OneBadElementTolerated ==
  Cardinality(FailedElems) = 1 =>
    /\ ~panicking
    /\ Len(errLog) <= 1
    /\ prodPc = "done" =>
         /\ Len(errLog) = 1
         /\ \A n \in (1 .. M) \ FailedElems : \E i \in 1 .. Len(sentLog) : sentLog[i].n = n

\* C11: no Record is given to the item channel for an element whose Decode
\* reported an error, so the Records sent never outnumber the elements
\* decoded without an error.
C11_FailedElementSkipped ==
  /\ \A i \in 1 .. Len(SentRecords) : SentRecords[i].n \notin FailedElems
  /\ Len(SentRecords) <= M - Cardinality(FailedElems)

\* C12: when the token in field-name position is not a string (every field
\* before it being in order), the producer reads nothing beyond it: it
\* reports one error, the Token error of that position, classifies no
\* further field (the captured values are those of the fields before it, no
\* element is decoded, no Record sent) and returns through the closes.
C12_NonStringNameIsFatal ==
  NameFault # 0 =>
    /\ pos <= NameFault
    /\ prodPc \in {"start", "scan", "sendFatal", "ret", "ret2", "done"}
    /\ ~panicking
    /\ prodErr \in {"", "token"}
    /\ prodErr = "token" =>
         /\ pos = NameFault /\ prodPc \in {"sendFatal", "ret", "ret2", "done"}
         /\ skMap = CapturedOf(input)
    /\ prodPc \in {"ret", "ret2", "done"} => errLog = <<"token">>
    /\ prodPc = "sendFatal" => errLog = <<>>
    /\ SentRecords = <<>> /\ writes = EmptyBag /\ v = NoItem
    /\ prodPc = "done" => cItemsClosed /\ cErrorsClosed
    /\ (AtRest /\ errLog # <<>>) => prodPc = "done"

C12_Witness ==
  /\ NameFault = 4 /\ input[4] = Null /\ prodPc = "done" /\ errLog = <<"token">>
  /\ skMap # EmptyMap /\ cItemsClosed /\ mainPc = "done"

\* C13: when the first token of the input is not '{', the producer reads
\* that token and no other, reports exactly one error, the one of expect,
\* touches no map, decodes no element, sends no Record, and returns closing
\* each channel once.
C13_NoObjectStart ==
  (input # <<>> /\ input[1] # D("{")) =>
    /\ pos <= 2
    /\ prodPc \in {"start", "sendFatal", "ret", "ret2", "done"}
    /\ ~panicking
    /\ prodErr = IF prodPc = "start" THEN "" ELSE "expect"
    /\ errLog = IF prodPc \in {"ret", "ret2", "done"} THEN <<"expect">> ELSE <<>>
    /\ metadata = InitMetadata /\ skMap = EmptyMap
    /\ SentRecords = <<>> /\ writes = EmptyBag /\ v = NoItem
    /\ prodPc = "done" =>
         cItemsClosed /\ cErrorsClosed /\ closes = [items |-> 1, errors |-> 1]
    /\ (AtRest /\ errLog # <<>>) => prodPc = "done"

C13_Witness ==
  /\ input = <<D("["), D("]")>> /\ pos = 2 /\ prodPc = "done"
  /\ errLog = <<"expect">> /\ cItemsClosed /\ cErrorsClosed /\ mainPc = "done"

\* C14: when the token after the name of the array field is not '[',
\* decodeItems reads that token and returns an error: no element is decoded,
\* no Record sent; the producer reports that error, its only one, reads
\* nothing more and returns through the closes.
C14_ItemsNotArrayIsFatal ==
  ItemsNotArray =>
    /\ pos <= ItemsName + 2
    /\ prodPc \in {"start", "scan", "sendFatal", "ret", "ret2", "done"}
    /\ ~panicking
    /\ prodErr \in {"", "decodeItems"}
    /\ prodErr = "decodeItems" <=> prodPc \in {"sendFatal", "ret", "ret2", "done"}
    /\ prodErr = "decodeItems" => pos = ItemsName + 2
    /\ errLog = IF prodPc \in {"ret", "ret2", "done"} THEN <<"decodeItems">> ELSE <<>>
    /\ SentRecords = <<>> /\ writes = EmptyBag /\ v = NoItem
    /\ prodPc = "done" => cItemsClosed /\ cErrorsClosed
    /\ (AtRest /\ errLog # <<>>) => prodPc = "done"

C14_Witness ==
  /\ ItemsNotArray /\ input[ItemsName + 1] = D("{") /\ pos = ItemsName + 2
  /\ prodPc = "done" /\ errLog = <<"decodeItems">> /\ skMap # EmptyMap
  /\ cItemsClosed /\ mainPc = "done"

\* C15: once the producer has entered the target array it never reads past
\* the array's ']': when decodeItems has returned the top-level loop stands
\* at that ']', finds More() false and can only end; no fatal error is
\* raised and the captured values stay those of the fields in front of the
\* array, whatever fields follow it.
C15_ArrayIsTerminal ==
  (prodPc # "start" /\ ItemsIsArray /\ pos > ItemsName + 1) =>
    /\ pos <= ItemsClose
    /\ prodPc # "sendFatal"
    /\ prodErr \in {"", "syntax", "type"}
    /\ LET captured == CapturedOf(input)
       IN skMap = captured /\ metadata = MetaFor(captured)
    /\ prodPc = "scan" =>
         /\ pos = ItemsClose /\ ~More(input, pos)
         /\ Running => ENABLED ProdScanEnd
         /\ ~ENABLED (ProdNameErr \/ ProdItemsField \/ ProdCapture \/ ProdSkip)

C15_Witness ==
  /\ ItemsIsArray /\ M = 2 /\ pos = ItemsClose /\ prodPc = "done"
  /\ Len(input) > pos + 1 /\ input[pos + 1] = S("configSnapshotId")
  /\ DOMAIN skMap = {"fileVersion"} /\ Len(sentLog) = 2

\* C16: a step that changes the metadata map or the config_snapshot map
\* behind it is a step of the producer's top-level scan, taken while no
\* Record has been given to the item channel or is offered on it and no
\* worker holds one; so from the first Record on both maps are frozen.
C16_MetadataFrozen ==
  [][(metadata' # metadata \/ skMap' # skMap) =>
       /\ prodPc = "scan" /\ prodPc' \in {"scan", "sendFatal"}
       /\ SentRecords = <<>>
       /\ \A w \in Workers : wpc[w] = "recv" /\ wItem[w] = NoItem
       /\ UNCHANGED <<workerVars, mainVars>>]_vars

\* a worker holds a Record while the producer is back in the top-level scan
\* of a document with a captured field behind the array
C16_Witness ==
  /\ \E w \in Workers : wpc[w] = "write" /\ wItem[w].m["metadata"] = Ref("META")
  /\ prodPc = "scan" /\ ItemsIsArray /\ pos = ItemsClose
  /\ Len(input) > pos + 1 /\ input[pos + 1] = S("configSnapshotId")

\* C17: on a well-formed document, a step of the top-level scan that stands
\* at an ignored field name moves the read position to just behind that
\* field's value (one token for a scalar, up to the matching close
\* delimiter otherwise), onto the next field name, and changes nothing else
\* of the producer; and when the array has been entered, the captured
\* values, the metadata and every Record sent are those of the document
\* without the ignored fields in front of the array.
C17_SkipConsumesValue ==
  /\ [][(prodPc = "scan" /\ pos' # pos /\ WellFormed) =>
          IF IsIgnoredName(input[pos])
            THEN LET e == ValueLast(input, pos + 1)
                 IN /\ e # 0 /\ pos' = e + 1
                    /\ ~IsOpen(input[pos + 1]) => e = pos + 1
                    /\ IsOpen(input[pos + 1]) =>
                         IsClose(input[e]) /\ Balance(input, pos + 1, e) = 0
                    /\ input[pos'].k = "str"
                    /\ UNCHANGED <<prodPc, prodErr, metadata, skMap, v, panicking>>
            ELSE input[pos].k = "str"]_vars
  /\ []((prodPc # "start" /\ WellFormed /\ pos > ItemsName + 1 /\ HasIgnored) =>
          LET bare == Strip(input)
              items == ItemsOf(bare)
          IN /\ skMap = CapturedOf(bare) /\ metadata = MetaOf(bare)
             /\ Len(items) = M
             /\ \A i \in 1 .. Len(SentRecords) :
                  SentRecords[i].m = Enrich(ElemAt(bare, items[SentRecords[i].n]), metadata))

\* the scan stands behind a skipped nested value, on the name of a captured
\* field, before the array
C17_Witness ==
  /\ WellFormed /\ prodPc = "scan" /\ pos = 14
  /\ IsIgnoredName(input[2]) /\ IsOpen(input[3]) /\ ValueLast(input, 3) = 13
  /\ IsOpen(input[5]) /\ input[pos] = S("fileVersion") /\ skMap = EmptyMap

\* Write calls of worker w that failed
Failures(w) == Cardinality({i \in 1 .. Len(wLog[w]) : ~wLog[w][i].ok})

\* C18: a worker's ErrorCount is the number of its Write calls that failed
\* and its ItemCount the number of Records it has received, so ErrorCount <=
\* ItemCount; a failure does not end the worker: it ends only on the closed
\* item channel, and then its status, with these counts, is emitted; every
\* Record taken is written whether or not earlier Writes failed; and once
\* the item channel is closed the process does not rest before every
\* worker, failed Writes or not, has emitted its status.
C18_WriteErrorCounted ==
  /\ \A w \in Workers :
       /\ wStatus[w].ErrorCount = Failures(w)
       /\ wStatus[w].ItemCount = Len(wLog[w]) + (IF wpc[w] = "write" THEN 1 ELSE 0)
       /\ wStatus[w].ErrorCount <= wStatus[w].ItemCount
       /\ wpc[w] = "done" => (cItemsClosed /\ statusSent[w] = 1)
  /\ \A i \in 1 .. Len(chStatus) :
       \E w \in Workers : wpc[w] = "done" /\ chStatus[i] = wStatus[w]
  /\ BagCardinality(writes) = Sum([w \in Workers |-> Len(wLog[w])], Workers)
  /\ AllWorkersDone => BagCardinality(writes) = Len(sentLog)
  /\ (cItemsClosed /\ AtRest) => \A w \in Workers : statusSent[w] = 1

\* a worker whose first Write failed has written a later Record and sent
\* its status
C18_Witness ==
  \E w \in Workers :
    /\ wLog[w] = <<[n |-> 1, ok |-> FALSE], [n |-> 2, ok |-> TRUE]>>
    /\ wStatus[w] = [ItemCount |-> 2, ErrorCount |-> 1]
    /\ statusSent[w] = 1 /\ mainPc = "done"

\* C19: main leaves its drain loop only with poolSize statuses received,
\* and when it has received poolSize statuses every worker has left its
\* receive loop and holds no Record, every Record taken from the item
\* channel has been written, and no step after that is a Write.
C19_NoWorkerRunsAfterDrain ==
  /\ [](mainPc = "done" => mainI = poolSize)
  /\ [](mainI = poolSize =>
          /\ \A w \in Workers : wpc[w] = "done" /\ wItem[w] = NoItem
          /\ cItemsClosed /\ prodPc \notin {"sendItem", "enrich", "items"}
          /\ BagCardinality(writes) = Len(sentLog))
  /\ [][mainI = poolSize => (writes' = writes /\ wLog' = wLog /\ wpc' = wpc)]_vars

\* main has drained a pool of two after both workers wrote, one of them
\* with a failure
C19_Witness ==
  /\ mainI = poolSize /\ poolSize = 2 /\ mainPc = "done"
  /\ Len(wLog[0]) = 1 /\ Len(wLog[1]) = 1 /\ ~wLog[1][1].ok
  /\ BagCardinality(writes) = 2

\* C20: on a well-formed document, from a state in which the timeout or the
\* signal has fired with at least two elements of the array still unread,
\* the producer does not go on to read the array to its end: the last
\* element is never decoded.
C20_CancelStopsProducer ==
  []((WellFormed /\ cancelled /\ M - v.n >= 2) => [](v.n < M))

\* sink calls made for caller c's Write
SinkCalls(c) == {i \in 1 .. Len(sink) : sink[i].from = c}

\* C21: every call on the shared sink carries the JSON encoding of the one
\* item its caller passed to Write, followed by the terminator when one is
\* set, and nothing else; a Write makes at most one sink call: none, and
\* the encoding error returned, when the item cannot be encoded, else
\* exactly one, whose error, if any, is what Write returns.
C21_OneSinkCallPerRecord ==
  /\ \A i \in 1 .. Len(sink) :
       LET enc == Marshal(fwItem[sink[i].from])
       IN /\ ~enc.err
          /\ sink[i].b = enc.b \o fwTerm
          /\ Head(sink[i].b) = D("{")
          /\ sink[i].b[Len(enc.b)] = D("}")
          /\ Len(sink[i].b) = Len(enc.b) + (IF fwTerm = <<>> THEN 0 ELSE 1)
  /\ \A c \in Callers :
       /\ Cardinality(SinkCalls(c)) <= 1
       /\ fwPc[c] # "done" => (SinkCalls(c) = {} /\ fwRet[c] = "")
       /\ fwPc[c] = "done" =>
            IF Marshal(fwItem[c]).err
              THEN SinkCalls(c) = {} /\ fwRet[c] = "marshal"
              ELSE \E i \in SinkCalls(c) :
                     fwRet[c] = IF sink[i].ok THEN "" ELSE "sink"

\* two Writes on one sink with a terminator: the second caller's record went
\* first and failed at the sink, a third item could not be encoded or not
C21_Witness ==
  /\ Callers = 1 .. MaxCallers /\ fwTerm = <<LF>>
  /\ \A c \in Callers : fwPc[c] = "done"
  /\ Len(sink) >= 2 /\ sink[1].from = 2 /\ ~sink[1].ok /\ sink[2].from = 1
  /\ fwRet[2] = "sink" /\ fwRet[1] = ""
  /\ fwItem[1] = I_tags /\ sink[2].b[Len(sink[2].b)] = LF


\* the producer stands at a send on the unbuffered error channel
AtErrorSend == prodPc \in {"sendFatal", "sendElemErr"}

\* C22: whenever the producer stands at a send on the error channel, main
\* eventually receives that error and the producer moves on.
C22_ErrorsEventuallyReceived ==
  [](AtErrorSend => <>(~AtErrorSend))


\* C23: the enrichment assignments of decodeItems are reached with a non-nil
\* decoded map only, whatever the element was, and the producer never
\* panics, so the process is never ended by it.
C23_EnrichOnNonNilMap ==
  /\ prodPc = "enrich" => ~v.isNil
  /\ ~panicking
  /\ ~crashed


\* an error-free input handled by more workers than chStatus holds
BigPoolRun == WellFormed /\ poolSize > StatusCap

\* worker w has left its range loop and finds chStatus full
StatusBlocked(w) ==
  wpc[w] = "recv" /\ cItemsClosed /\ Len(chStatus) = StatusCap

\* C24: on an error-free input with more workers than chStatus holds, the
\* run always comes to its end, main having received every status and every
\* worker having sent its own; that end is final, so a worker that finds
\* chStatus full on the way gets to send.
C24_BigPoolTerminates ==
  BigPoolRun => <>(mainPc = "done" /\ AllWorkersDone /\ mainI = poolSize)

\* chStatus is full, main has not taken a status yet and a worker waits to
\* send, the error channel having been closed
C24_Witness ==
  /\ BigPoolRun /\ cErrorsClosed /\ mainI = 0
  /\ \E w \in Workers : StatusBlocked(w)
  /\ Len(sentLog) = 1

====
